---- MODULE Spec2Model ----
(***************************************************************************)
(* Model of the condition-axis generator of pipeworks                      *)
(* (core/character_conditions.py) and of its UI dispatcher                 *)
(* (ui/handlers/conditions.py).                                            *)
(*                                                                         *)
(* Representation choices                                                  *)
(*   - A Python dict (insertion ordered) is a sequence of <<key, value>>   *)
(*     pairs with pairwise distinct keys.                                  *)
(*   - A prompt text is a sequence of tokens: the values and the           *)
(*     separator token ", ".  The empty string is the empty sequence.      *)
(*   - Weights are stored doubled (0.5 -> 1) so that they are integers.    *)
(*   - The module-level generator of Python's random is a deterministic    *)
(*     machine: its state is the stream it was seeded with plus the        *)
(*     library calls made since.  What a call returns in a given state is  *)
(*     unknown but fixed: it is decided the first time that state is       *)
(*     reached and remembered in oracle.                                   *)
(***************************************************************************)
EXTENDS Integers, Sequences, FiniteSets, TLC

(***************************************************************************)
(* Bounds                                                                  *)
(***************************************************************************)
\* seeds a caller passes are 0..MaxSeed
MaxSeed == 0
\* number of draws of the generator whose outcome has been decided, under Spec:
\* a run of generate_condition makes 3 draws (no optional axis) to 6 (two)
MaxOracle == 6
\* the same under SpecByType: "All" makes at least 5 draws
MaxOracleByType == 5
\* the same under SpecCompose
MaxOracleCompose == 6
\* the same under SpecChoice
MaxOracleChoice == 2
\* random() returns r / RandResolution for r in 0..RandResolution-1
RandResolution == 24

\* Optional[int]: None is the empty sequence, a seed s is <<s>>
NoSeed == <<>>

Some(s) == <<s>>

\* the stream the generator is on before any random.seed call (seeded by the OS)
Entropy == <<>>

\* no exception
NoExc == ""

SEP == ", "

\* weights.get(option, 1.0), doubled
DefaultWeight == 2

(***************************************************************************)
(* Dict helpers (Python dict semantics on a sequence of pairs)             *)
(***************************************************************************)
Keys(d) == {d[i][1] : i \in 1..Len(d)}

Has(d, k) == \E i \in 1..Len(d) : d[i][1] = k

\* d[k] for a key that is present
Lookup(d, k) == d[CHOOSE i \in 1..Len(d) : d[i][1] = k][2]

\* d.get(k) == v  (v is never None)
GetIs(d, k, v) == \E i \in 1..Len(d) : d[i][1] = k /\ d[i][2] = v

\* d.get(k) in vs  (None is in no list)
GetIn(d, k, vs) == \E i \in 1..Len(d) : d[i][1] = k /\ d[i][2] \in vs

\* d[k] = v : overwrite in place or append
DictSet(d, k, v) ==
    IF Has(d, k)
    THEN [i \in 1..Len(d) |-> IF d[i][1] = k THEN <<k, v>> ELSE d[i]]
    ELSE Append(d, <<k, v>>)

\* d.pop(k) that fills the hole with the last entry
DictPop_MoveLast(d, k) ==
    LET i == CHOOSE j \in 1..Len(d) : d[j][1] = k
    IN  IF ~Has(d, k) \/ i = Len(d)
        THEN SelectSeq(d, LAMBDA e : e[1] # k)
        ELSE [j \in 1..(Len(d) - 1) |-> IF j = i THEN d[Len(d)] ELSE d[j]]

\* d.pop(k)
DictPop(d, k) == SelectSeq(d, LAMBDA e : e[1] # k)

Values(d) == [i \in 1..Len(d) |-> d[i][2]]

Range(s) == {s[i] : i \in 1..Len(s)}

(***************************************************************************)
(* Configuration of the character family                                   *)
(***************************************************************************)
CONDITION_AXES ==
    << <<"physique", <<"skinny", "wiry", "stocky", "hunched", "frail", "broad">> >>,
       <<"wealth", <<"poor", "modest", "well-kept", "wealthy", "decadent">> >>,
       <<"health", <<"sickly", "scarred", "weary", "hale", "limping">> >>,
       <<"demeanor", <<"timid", "suspicious", "resentful", "alert", "proud">> >>,
       <<"age", <<"young", "middle-aged", "old", "ancient">> >> >>

AXIS_POLICY ==
    [mandatory |-> <<"physique", "wealth">>,
     optional |-> <<"health", "demeanor", "age">>,
     max_optional |-> 2]

\* doubled: 4.0 -> 8, 0.5 -> 1
WEIGHTS ==
    << <<"wealth", << <<"poor", 8>>, <<"modest", 6>>, <<"well-kept", 4>>,
                      <<"wealthy", 2>>, <<"decadent", 1>> >> >>,
       <<"physique", << <<"skinny", 6>>, <<"wiry", 4>>, <<"hunched", 4>>,
                        <<"frail", 2>>, <<"stocky", 2>>, <<"broad", 1>> >> >> >>

\* EXCLUSIONS where ancient blocks decadent, the trigger of the rule before it
EXCLUSIONS_TriggerBlocked ==
    << <<"wealth", "decadent", << <<"physique", {"frail"}>>, <<"health", {"sickly"}>> >> >>,
       <<"age", "ancient", << <<"wealth", {"decadent"}>> >> >>,
       <<"physique", "broad", << <<"health", {"sickly"}>> >> >>,
       <<"health", "hale", << <<"physique", {"frail"}>> >> >> >>

\* EXCLUSIONS with a chain: hale blocks decadent, the trigger of the first rule
EXCLUSIONS_Chained ==
    << <<"wealth", "decadent", << <<"physique", {"frail"}>>, <<"health", {"sickly"}>> >> >>,
       <<"age", "ancient", << <<"demeanor", {"timid"}>> >> >>,
       <<"physique", "broad", << <<"health", {"sickly"}>> >> >>,
       <<"health", "hale", << <<"wealth", {"decadent"}>> >> >> >>

\* each rule: <<trigger axis, trigger value, blocked dict>>
EXCLUSIONS ==
    << <<"wealth", "decadent", << <<"physique", {"frail"}>>, <<"health", {"sickly"}>> >> >>,
       <<"age", "ancient", << <<"demeanor", {"timid"}>> >> >>,
       <<"physique", "broad", << <<"health", {"sickly"}>> >> >>,
       <<"health", "hale", << <<"physique", {"frail"}>> >> >> >>

CharacterConfig ==
    [axes |-> CONDITION_AXES, policy |-> AXIS_POLICY,
     weights |-> WEIGHTS, exclusions |-> EXCLUSIONS]

\* WEIGHTS.get(axis): the empty dict stands for None too (both are falsy)
WeightsGet(cfg, axis) == IF Has(cfg.weights, axis) THEN Lookup(cfg.weights, axis) ELSE <<>>

(***************************************************************************)
(* Python's random module.  rs = [seed, hist, oracle, cap]: the stream,    *)
(* the calls made on it since it was seeded, the outcomes decided so far   *)
(* and the bound on their number.                                          *)
(***************************************************************************)
\* random.seed(a)
random_seed(rs, a) == [rs EXCEPT !.seed = Some(a), !.hist = <<>>]

\* one library call in state rs: the same call in the same state returns the same.
\* A run that needs more than rs.cap decided outcomes is outside the bound.
Lib(rs, args, results) ==
    LET h == Append(rs.hist, args)
        key == <<rs.seed, h>>
    IN  IF key \in DOMAIN rs.oracle
        THEN {[res |-> rs.oracle[key], exc |-> NoExc, rs |-> [rs EXCEPT !.hist = h]]}
        ELSE IF Cardinality(DOMAIN rs.oracle) >= rs.cap THEN {}
        ELSE {[res |-> r, exc |-> NoExc,
               rs |-> [rs EXCEPT !.hist = h, !.oracle = (key :> r) @@ rs.oracle]]
              : r \in results}

\* Random._randbelow(n), n > 0
RandBelow(n) == {r % n : r \in 0..(RandResolution - 1)}

\* itertools.accumulate
RECURSIVE Accumulate(_)
Accumulate(w) ==
    IF Len(w) = 0 THEN <<>>
    ELSE LET init == Accumulate(SubSeq(w, 1, Len(w) - 1))
         IN  Append(init, (IF Len(init) = 0 THEN 0 ELSE init[Len(init)]) + w[Len(w)])

\* bisect.bisect_right(a, x, lo, hi) with x = r * total / RandResolution;
\* a is indexed from 0 in Python, from 1 here
RECURSIVE Bisect(_, _, _, _, _)
Bisect(a, r, total, lo, hi) ==
    IF lo < hi
    THEN LET mid == (lo + hi) \div 2
         IN  IF r * total < a[mid + 1] * RandResolution
             THEN Bisect(a, r, total, lo, mid)
             ELSE Bisect(a, r, total, mid + 1, hi)
    ELSE lo

\* random.choice(seq), seq not empty
random_choice(rs, tag, seq) ==
    {[res |-> seq[o.res + 1], exc |-> NoExc, rs |-> o.rs]
     : o \in Lib(rs, <<"choice", tag, Len(seq)>>, RandBelow(Len(seq)))}

\* random.choices(population, weights=w, k=1)[0], population not empty
random_choices(rs, tag, population, w) ==
    LET cum == Accumulate(w)
        n == Len(population)
        total == cum[n]
    IN  IF total <= 0
        THEN {[res |-> "", exc |-> "ValueError", rs |-> rs]}
        ELSE {[res |-> population[o.res + 1], exc |-> NoExc, rs |-> o.rs]
              : o \in Lib(rs, <<"choices", tag, n>>,
                          {Bisect(cum, r, total, 0, n - 1) : r \in 0..(RandResolution - 1)})}

\* random.randint(0, b)
random_randint(rs, b) ==
    IF b < 0
    THEN {[res |-> 0, exc |-> "ValueError", rs |-> rs]}
    ELSE Lib(rs, <<"randint", "", b>>, RandBelow(b + 1))

\* random.sample(population, k), 0 <= k <= len(population); for k = 0 the library
\* returns [] without a draw
random_sample(rs, tag, population, k) ==
    IF k = 0
    THEN {[res |-> <<>>, exc |-> NoExc, rs |-> rs]}
    ELSE Lib(rs, <<"sample", tag, k>>,
             {[i \in 1..k |-> population[s[i]]]
              : s \in {f \in [1..k -> 1..Len(population)]
                       : \A i, j \in 1..k : i # j => f[i] # f[j]}})

(***************************************************************************)
(* character_conditions.weighted_choice                                    *)
(***************************************************************************)
weighted_choice(rs, tag, options, weights) ==
    IF Len(weights) = 0
    THEN random_choice(rs, tag, options)
    ELSE LET weight_values ==
                 [i \in 1..Len(options) |->
                     IF Has(weights, options[i]) THEN Lookup(weights, options[i])
                     ELSE DefaultWeight]
         IN  random_choices(rs, tag, options, weight_values)

(***************************************************************************)
(* character_conditions.generate_condition                                 *)
(* A phase maps a state st = [chosen, rs, exc] to the set of states it can *)
(* end in.                                                                 *)
(***************************************************************************)
\* Reseed without "random.seed(seed)": the seed is ignored
Reseed_Skip(rs, seed) == rs

\* Reseed where a call without a seed starts a new stream from the OS's entropy
Reseed_Reset(rs, seed) ==
    IF seed # NoSeed THEN random_seed(rs, seed[1])
    ELSE [rs EXCEPT !.seed = Entropy, !.hist = <<>>]

Reseed(rs, seed) == IF seed # NoSeed THEN random_seed(rs, seed[1]) ELSE rs

\* chosen[axis] = weighted_choice(CONDITION_AXES[axis], WEIGHTS.get(axis))
SelectAxis(cfg, axis, st) ==
    {[chosen |-> IF o.exc = NoExc THEN DictSet(st.chosen, axis, o.res) ELSE st.chosen,
      rs |-> o.rs, exc |-> o.exc]
     : o \in weighted_choice(st.rs, axis, Lookup(cfg.axes, axis), WeightsGet(cfg, axis))}

\* MandatoryPhase over policy.mandatory[:-1]: the last mandatory axis is never selected
RECURSIVE MandatoryPhase_SkipLast(_, _, _)
MandatoryPhase_SkipLast(cfg, i, st) ==
    IF i >= Len(cfg.policy.mandatory) \/ st.exc # NoExc THEN {st}
    ELSE LET axis == cfg.policy.mandatory[i]
         IN  IF ~Has(cfg.axes, axis)
             THEN MandatoryPhase_SkipLast(cfg, i + 1, st)
             ELSE UNION {MandatoryPhase_SkipLast(cfg, i + 1, s)
                         : s \in SelectAxis(cfg, axis, st)}

\* MandatoryPhase with "break" for "continue": the loop ends at an undefined axis
RECURSIVE MandatoryPhase_Break(_, _, _)
MandatoryPhase_Break(cfg, i, st) ==
    IF i > Len(cfg.policy.mandatory) \/ st.exc # NoExc THEN {st}
    ELSE LET axis == cfg.policy.mandatory[i]
         IN  IF ~Has(cfg.axes, axis)
             THEN {st}
             ELSE UNION {MandatoryPhase_Break(cfg, i + 1, s)
                         : s \in SelectAxis(cfg, axis, st)}

RECURSIVE MandatoryPhase(_, _, _)
MandatoryPhase(cfg, i, st) ==
    IF i > Len(cfg.policy.mandatory) \/ st.exc # NoExc THEN {st}
    ELSE LET axis == cfg.policy.mandatory[i]
         IN  IF ~Has(cfg.axes, axis)
             THEN MandatoryPhase(cfg, i + 1, st)
             ELSE UNION {MandatoryPhase(cfg, i + 1, s) : s \in SelectAxis(cfg, axis, st)}

Min(a, b) == IF a < b THEN a ELSE b

RECURSIVE OptionalLoop(_, _, _, _)
OptionalLoop(cfg, optional_axes, i, st) ==
    IF i > Len(optional_axes) \/ st.exc # NoExc THEN {st}
    ELSE LET axis == optional_axes[i]
         IN  IF ~Has(cfg.axes, axis)
             THEN OptionalLoop(cfg, optional_axes, i + 1, st)
             ELSE UNION {OptionalLoop(cfg, optional_axes, i + 1, s)
                         : s \in SelectAxis(cfg, axis, st)}

\* OptionalPhase with "optional_axes = AXIS_POLICY['optional']": every optional axis
\* is selected, max_optional is ignored
OptionalPhase_All(cfg, st) ==
    IF st.exc # NoExc THEN {st} ELSE OptionalLoop(cfg, cfg.policy.optional, 1, st)

OptionalPhase(cfg, st) ==
    IF st.exc # NoExc THEN {st}
    ELSE UNION {
           IF n.exc # NoExc THEN {[st EXCEPT !.exc = n.exc]}
           ELSE UNION {OptionalLoop(cfg, o.res, 1, [st EXCEPT !.rs = o.rs])
                       : o \in random_sample(n.rs, "optional", cfg.policy.optional, n.res)}
           : n \in random_randint(st.rs,
                                  Min(cfg.policy.max_optional, Len(cfg.policy.optional)))}

\* ApplyBlocked without "chosen.pop(blocked_axis)": nothing is removed
ApplyBlocked_NoPop(chosen, blocked, j) == chosen

\* the inner loop over blocked.items()
RECURSIVE ApplyBlocked(_, _, _)
ApplyBlocked(chosen, blocked, j) ==
    IF j > Len(blocked) THEN chosen
    ELSE ApplyBlocked(IF GetIn(chosen, blocked[j][1], blocked[j][2])
                      THEN DictPop(chosen, blocked[j][1])
                      ELSE chosen,
                      blocked, j + 1)

\* the rule is applied whether its trigger is in the mapping or not
ApplyRule_Unconditional(rule, chosen) == ApplyBlocked(chosen, rule[3], 1)

\* one iteration of the loop over EXCLUSIONS.items(): if chosen.get(axis) == value,
\* the blocked axes are popped
ApplyRule(rule, chosen) ==
    IF GetIs(chosen, rule[1], rule[2])
    THEN ApplyBlocked(chosen, rule[3], 1)
    ELSE chosen

\* ExclusionPhase that resolves a conflict by removing both sides: the trigger axis
\* is removed too when one of its blocked axes was
RECURSIVE ExclusionPhase_DropTrigger(_, _, _)
ExclusionPhase_DropTrigger(exclusions, chosen, i) ==
    IF i > Len(exclusions) THEN chosen
    ELSE LET after == IF GetIs(chosen, exclusions[i][1], exclusions[i][2])
                      THEN ApplyBlocked(chosen, exclusions[i][3], 1)
                      ELSE chosen
         IN  ExclusionPhase_DropTrigger(exclusions,
                                        IF after # chosen
                                        THEN DictPop(after, exclusions[i][1])
                                        ELSE after,
                                        i + 1)

\* the loop over EXCLUSIONS.items()
RECURSIVE ExclusionPhase(_, _, _)
ExclusionPhase(exclusions, chosen, i) ==
    IF i > Len(exclusions) THEN chosen
    ELSE ExclusionPhase(exclusions, ApplyRule(exclusions[i], chosen), i + 1)

\* the draws every run makes: one per defined mandatory axis, and randint
MinCalls(cfg) == Len(SelectSeq(cfg.policy.mandatory, LAMBDA a : Has(cfg.axes, a))) + 1

\* a run from a generator state nothing is decided for decides at least n outcomes;
\* FALSE only for runs that are outside the bound anyway
WithinBound(rs, n) ==
    \/ Cardinality(DOMAIN rs.oracle) + n <= rs.cap
    \/ \E key \in DOMAIN rs.oracle :
         /\ key[1] = rs.seed
         /\ Len(key[2]) > Len(rs.hist)
         /\ SubSeq(key[2], 1, Len(rs.hist)) = rs.hist

\* the states generate_condition(seed) can return in, called in state rs;
\* selected is chosen as it was before phase 3
generate_condition(cfg, seed, rs) ==
    IF ~WithinBound(Reseed(rs, seed), MinCalls(cfg)) THEN {}
    ELSE
    {[chosen |-> IF s.exc = NoExc
                 THEN ExclusionPhase(cfg.exclusions, s.chosen, 1)
                 ELSE s.chosen,
      selected |-> s.chosen, rs |-> s.rs, exc |-> s.exc]
     : s \in UNION {OptionalPhase(cfg, m)
                    : m \in MandatoryPhase(cfg, 1, [chosen |-> <<>>,
                                                    rs |-> Reseed(rs, seed),
                                                    exc |-> NoExc])}}

\* character_conditions.condition_to_prompt
RECURSIVE JoinSep(_)
JoinSep(vals) ==
    IF Len(vals) = 0 THEN <<>>
    ELSE IF Len(vals) = 1 THEN <<vals[1]>>
    ELSE <<vals[1], SEP>> \o JoinSep(Tail(vals))

\* condition_to_prompt with ", ".join(condition_dict): iterating a dict gives its keys
condition_to_prompt_Keys(condition_dict) ==
    IF Len(condition_dict) = 0 THEN <<>>
    ELSE JoinSep([i \in 1..Len(condition_dict) |-> condition_dict[i][1]])

condition_to_prompt(condition_dict) ==
    IF Len(condition_dict) = 0 THEN <<>> ELSE JoinSep(Values(condition_dict))


\* get_axis_values with CONDITION_AXES.get(axis, []): an unknown axis has no values
get_axis_values_Get(axis) ==
    IF Has(CONDITION_AXES, axis)
    THEN [exc |-> NoExc, val |-> Lookup(CONDITION_AXES, axis)]
    ELSE [exc |-> NoExc, val |-> <<>>]

\* character_conditions.get_axis_values
get_axis_values(axis) ==
    IF Has(CONDITION_AXES, axis)
    THEN [exc |-> NoExc, val |-> Lookup(CONDITION_AXES, axis)]
    ELSE [exc |-> "KeyError", val |-> <<>>]

(***************************************************************************)
(* The facial and occupation families (condition_axis.facial_conditions,   *)
(* occupation_conditions): the same generator over their own data.  Their  *)
(* draws are one step of the generator here.                               *)
(***************************************************************************)
FACIAL_CONDITIONS ==
    {<<>>, << <<"facial_signal", "weathered">> >>}

OCCUPATION_CONDITIONS ==
    {<< <<"legitimacy", "tolerated">>, <<"visibility", "discreet">> >>}

generate_facial_condition(seed, rs) ==
    {[chosen |-> o.res, rs |-> o.rs, exc |-> NoExc]
     : o \in Lib(Reseed(rs, seed), <<"family", "facial", 0>>, FACIAL_CONDITIONS)}

generate_occupation_condition(seed, rs) ==
    {[chosen |-> o.res, rs |-> o.rs, exc |-> NoExc]
     : o \in Lib(Reseed(rs, seed), <<"family", "occupation", 0>>, OCCUPATION_CONDITIONS)}

facial_condition_to_prompt(condition_dict) == condition_to_prompt(condition_dict)

occupation_condition_to_prompt(condition_dict) == condition_to_prompt(condition_dict)

(***************************************************************************)
(* ui/handlers/conditions.py.  A handler maps the generator state rs to    *)
(* the set of [text, parts, seeds, rs]: the text returned, the fragments   *)
(* generated (in the order of generation), the seeds they were generated   *)
(* with and the generator state left behind.                               *)
(***************************************************************************)
generate_character_condition(seed, rs) ==
    {[text |-> condition_to_prompt(c.chosen), parts |-> <<condition_to_prompt(c.chosen)>>,
      seeds |-> <<seed>>, rs |-> c.rs, exc |-> c.exc]
     : c \in generate_condition(CharacterConfig, seed, rs)}

generate_facial_condition_text(seed, rs) ==
    {[text |-> facial_condition_to_prompt(c.chosen),
      parts |-> <<facial_condition_to_prompt(c.chosen)>>,
      seeds |-> <<seed>>, rs |-> c.rs, exc |-> c.exc]
     : c \in generate_facial_condition(seed, rs)}

generate_occupation_condition_text(seed, rs) ==
    {[text |-> occupation_condition_to_prompt(c.chosen),
      parts |-> <<occupation_condition_to_prompt(c.chosen)>>,
      seeds |-> <<seed>>, rs |-> c.rs, exc |-> c.exc]
     : c \in generate_occupation_condition(seed, rs)}

\* OffsetSeed without the offset: every family is generated with the caller's seed
OffsetSeed_Same(seed, offset) == seed

\* None if seed is None else seed + offset
OffsetSeed(seed, offset) == IF seed = NoSeed THEN NoSeed ELSE Some(seed[1] + offset)

\* f"{character_text}, {facial_text}" and the three fallbacks
CombineBoth(character_text, facial_text) ==
    IF Len(character_text) > 0 /\ Len(facial_text) > 0
    THEN character_text \o <<SEP>> \o facial_text
    ELSE IF Len(character_text) > 0 THEN character_text
    ELSE IF Len(facial_text) > 0 THEN facial_text
    ELSE <<>>

\* an exception of a generator ends the handler
Raised(o) == [text |-> <<>>, parts |-> <<>>, seeds |-> o.seeds, rs |-> o.rs, exc |-> o.exc]

generate_both_conditions(seed, rs) ==
    UNION {
      IF c.exc # NoExc THEN {Raised(c)}
      ELSE {IF f.exc # NoExc THEN Raised(f)
            ELSE [text |-> CombineBoth(c.text, f.text), parts |-> <<c.text, f.text>>,
                  seeds |-> c.seeds \o f.seeds, rs |-> f.rs, exc |-> NoExc]
            : f \in generate_facial_condition_text(OffsetSeed(seed, 1), c.rs)}
      : c \in generate_character_condition(seed, rs)}

\* ", ".join(parts) for a list of texts
RECURSIVE JoinTexts(_)
JoinTexts(parts) ==
    IF Len(parts) = 0 THEN <<>>
    ELSE IF Len(parts) = 1 THEN parts[1]
    ELSE parts[1] \o <<SEP>> \o JoinTexts(Tail(parts))

\* parts = []; if character_text: parts.append(character_text); ...
NonEmptyParts(texts) == SelectSeq(texts, LAMBDA x : Len(x) > 0)

generate_all_conditions(seed, rs) ==
    UNION {
      IF c.exc # NoExc THEN {Raised(c)}
      ELSE UNION {
        IF f.exc # NoExc THEN {Raised(f)}
        ELSE {IF o.exc # NoExc THEN Raised(o)
              ELSE [text |-> JoinTexts(NonEmptyParts(<<c.text, f.text, o.text>>)),
                    parts |-> <<c.text, f.text, o.text>>,
                    seeds |-> c.seeds \o f.seeds \o o.seeds, rs |-> o.rs, exc |-> NoExc]
              : o \in generate_occupation_condition_text(OffsetSeed(seed, 2), f.rs)}
        : f \in generate_facial_condition_text(OffsetSeed(seed, 1), c.rs)}
      : c \in generate_character_condition(seed, rs)}

\* return ""
Empty(rs) == {[text |-> <<>>, parts |-> <<>>, seeds |-> <<>>, rs |-> rs, exc |-> NoExc]}

\* generate_condition_by_type with "raise ValueError" in place of the final return ""
generate_condition_by_type_Strict(condition_type, seed, rs) ==
    IF condition_type = "None" THEN Empty(rs)
    ELSE IF condition_type = "Character" THEN generate_character_condition(seed, rs)
    ELSE IF condition_type = "Facial" THEN generate_facial_condition_text(seed, rs)
    ELSE IF condition_type = "Occupation" THEN generate_occupation_condition_text(seed, rs)
    ELSE IF condition_type = "Both" THEN generate_both_conditions(seed, rs)
    ELSE IF condition_type = "All" THEN generate_all_conditions(seed, rs)
    ELSE {[text |-> <<>>, parts |-> <<>>, seeds |-> <<>>, rs |-> rs, exc |-> "ValueError"]}

generate_condition_by_type(condition_type, seed, rs) ==
    IF condition_type = "None" THEN Empty(rs)
    ELSE IF condition_type = "Character" THEN generate_character_condition(seed, rs)
    ELSE IF condition_type = "Facial" THEN generate_facial_condition_text(seed, rs)
    ELSE IF condition_type = "Occupation" THEN generate_occupation_condition_text(seed, rs)
    ELSE IF condition_type = "Both" THEN generate_both_conditions(seed, rs)
    ELSE IF condition_type = "All" THEN generate_all_conditions(seed, rs)
    ELSE Empty(rs)

(***************************************************************************)
(* State                                                                   *)
(***************************************************************************)
VARIABLES
    rng,     \* the module-level generator: [seed, hist]
    oracle,  \* the outcomes of the generator decided so far
    call,    \* the last call made: [op, type, seed, arg]
    ret,     \* what it returned: [exc, val, selected, parts, seeds, arg]
    probe,   \* the first seeded call, its result, and whether another call followed
    cap,     \* the bound on the size of oracle
    mgr,     \* the segment manager state dict the UI holds
    limits,  \* the segment limits the UI was configured with
    segop,   \* the last segment handler call and what it returned
    files,   \* the files on disk: [dir, name, suffix]
    favs,    \* the favorites database: image paths, newest first
    catop,   \* the last catalog operation and what it returned
    plugins, \* ImageGenerator.plugins: the enabled flag of each plugin, in list order
    run,     \* where generate_and_save stands: [phase, i]
    hooklog, \* what the current run of generate_and_save has done so far, in order
    seen,    \* the plugins that were enabled, and those that were disabled, during the run
    excl,    \* phase 3 of generate_condition, rule by rule: [rules, input, chosen, i, log]
    thr,     \* the threads inside generate_condition: position and locals of each
    dims     \* the last call into ui/aspect_ratios.py: [op, args, val, exc, message]

vars == <<rng, oracle, call, ret, probe, cap, mgr, limits, segop, files, favs, catop,
          plugins, run, hooklog, seen, excl, thr, dims>>

\* the variables of the segment manager
segVars == <<mgr, limits, segop>>

\* the variables of the condition generator
condVars == <<rng, oracle, call, ret, probe, cap>>

\* the variables of the catalog manager
catVars == <<files, favs, catop>>

\* the variables of the image generator and its plugins
pipeVars == <<plugins, run, hooklog, seen>>

\* the variables the condition generator does not touch
otherVars == <<segVars, catVars, pipeVars, excl, thr, dims>>

\* the variables the segment handlers do not touch
nonSegVars == <<condVars, catVars, pipeVars, excl, thr, dims>>

\* the variables the catalog manager does not touch
nonCatVars == <<condVars, segVars, pipeVars, excl, thr, dims>>

\* the variables the image generator does not touch
nonPipeVars == <<condVars, segVars, catVars, excl, thr, dims>>

\* the variables the exclusion phase does not touch
nonExclVars == <<condVars, segVars, catVars, pipeVars, thr, dims>>

\* the variables outside the condition generator and its threads
nonCondVars == <<segVars, catVars, pipeVars, excl, dims>>

\* no segment manager in use
SegIdle == mgr = <<>> /\ limits = <<>> /\ segop = <<>>

\* no catalog manager in use
CatIdle == files = {} /\ favs = <<>> /\ catop = <<>>

\* no image generator in use
PipeIdle == plugins = <<>> /\ run = <<>> /\ hooklog = <<>> /\ seen = <<>>

\* no exclusion phase under way
ExclIdle == excl = <<>>

\* no thread inside generate_condition
ThreadsIdle == thr = <<>>

\* no call into the aspect-ratio module so far
DimsIdle == dims = <<>>

\* the variables the aspect-ratio functions do not touch
nonDimsVars == <<condVars, segVars, catVars, pipeVars, excl, thr>>

OthersIdle == SegIdle /\ CatIdle /\ PipeIdle /\ ExclIdle /\ ThreadsIdle /\ DimsIdle

Seeds == {NoSeed} \cup {Some(s) : s \in 0..MaxSeed}

KnownTypes == {"Character", "Facial", "Occupation", "Both", "All"}

OtherTypes == {"None", "", "none", " None ", "character", "FACIAL", "InvalidType"}

RS == [seed |-> rng.seed, hist |-> rng.hist, oracle |-> oracle, cap |-> cap]

NoCall == [op |-> "", type |-> "", seed |-> NoSeed, arg |-> <<>>]

NoRet ==
    [exc |-> NoExc, val |-> <<>>, selected |-> <<>>, parts |-> <<>>, seeds |-> <<>>,
     arg |-> <<>>]

\* the generator seeded by the OS, nothing called yet
CondStart(bound) ==
    /\ rng = [seed |-> Entropy, hist |-> <<>>]
    /\ oracle = <<>>
    /\ call = NoCall
    /\ ret = NoRet
    /\ probe = <<>>
    /\ cap = bound

Start(bound) == CondStart(bound) /\ OthersIdle

SameCall(c, d) == c.op = d.op /\ c.type = d.type /\ c.seed = d.seed

\* the first seeded call and what it returned; other: a different call came after it
Remember(c, r) ==
    IF probe = <<>>
    THEN probe' = IF c.seed # NoSeed
                  THEN <<[call |-> c, val |-> r.val, other |-> FALSE]>>
                  ELSE <<>>
    ELSE probe' = <<[probe[1] EXCEPT !.other = @ \/ ~SameCall(c, probe[1].call)]>>

Returns(c, r, rs) ==
    /\ rng' = [seed |-> rs.seed, hist |-> rs.hist]
    /\ oracle' = rs.oracle
    /\ call' = c
    /\ ret' = r
    /\ Remember(c, r)
    /\ UNCHANGED <<cap, otherVars>>

GenerateCondition ==
    \E seed \in Seeds :
      \E o \in generate_condition(CharacterConfig, seed, RS) :
        Returns([op |-> "generate_condition", type |-> "", seed |-> seed, arg |-> <<>>],
                [NoRet EXCEPT !.exc = o.exc, !.val = o.chosen, !.selected = o.selected],
                o.rs)

ByType(types) ==
    \E condition_type \in types, seed \in Seeds :
      \E o \in generate_condition_by_type(condition_type, seed, RS) :
        Returns([op |-> "generate_condition_by_type", type |-> condition_type,
                 seed |-> seed, arg |-> <<>>],
                [NoRet EXCEPT !.exc = o.exc, !.val = o.text, !.parts = o.parts,
                              !.seeds = o.seeds],
                o.rs)

\* the types that reach a generator
GenerateConditionByType == ByType(KnownTypes)

\* "None" and the unknown types
GenerateConditionByTypeOther == ByType(OtherTypes)

\* _generate_character_condition through the dispatcher
GenerateCharacterCondition == ByType({"Character"})

\* _generate_both_conditions and _generate_all_conditions through the dispatcher
GenerateComposedConditions == ByType({"Both", "All"})

(***************************************************************************)
(* Direct calls of the helpers, on arguments from bounded sets             *)
(***************************************************************************)
MaxPromptLen == 3

PromptPairs ==
    {<<"physique", "wiry">>, <<"physique", "frail">>, <<"wealth", "poor">>,
     <<"age", "old">>, <<"a", "v1">>, <<"b", "v2">>}

PromptInputs ==
    UNION {{d \in [1..n -> PromptPairs] : \A i, j \in 1..n : i # j => d[i][1] # d[j][1]}
           : n \in 0..MaxPromptLen}

CallConditionToPrompt ==
    \E d \in PromptInputs :
      /\ call' = [op |-> "condition_to_prompt", type |-> "", seed |-> NoSeed, arg |-> d]
      /\ ret' = [NoRet EXCEPT !.val = condition_to_prompt(d), !.arg = d]
      /\ UNCHANGED <<rng, oracle, probe, cap, otherVars>>

AxisInputs == Keys(CONDITION_AXES) \cup {"not-a-real-axis", "Physique", "", "facial_signal"}

CallGetAxisValues ==
    \E axis \in AxisInputs :
      /\ call' = [op |-> "get_axis_values", type |-> "", seed |-> NoSeed, arg |-> axis]
      /\ ret' = [NoRet EXCEPT !.exc = get_axis_values(axis).exc,
                              !.val = get_axis_values(axis).val]
      /\ UNCHANGED <<rng, oracle, probe, cap, otherVars>>

\* doubled weights: -1, 0, 1, 3
WeightInputs == {-2, 0, 2, 6}

\* every dict over a subset of the keys a, b, and None (the empty dict)
WeightDicts ==
    {<<>>} \cup {<< <<"a", x>> >> : x \in WeightInputs}
           \cup {<< <<"b", x>> >> : x \in WeightInputs}
           \cup {<< <<"a", x>>, <<"b", y>> >> : x, y \in WeightInputs}

OptionInputs == {<<"a", "b">>, <<"a", "b", "c">>}

CallWeightedChoice ==
    \E options \in OptionInputs, weights \in WeightDicts :
      \E o \in weighted_choice(RS, "direct", options, weights) :
        /\ call' = [op |-> "weighted_choice", type |-> "", seed |-> NoSeed,
                    arg |-> <<options, weights>>]
        /\ ret' = [NoRet EXCEPT !.exc = o.exc, !.val = o.res]
        /\ rng' = [seed |-> o.rs.seed, hist |-> o.rs.hist]
        /\ oracle' = o.rs.oracle
        /\ UNCHANGED <<probe, cap, otherVars>>

(***************************************************************************)
(* Specifications                                                          *)
(***************************************************************************)
Init == Start(MaxOracle)

Next == GenerateCondition \/ GenerateCharacterCondition

Spec == Init /\ [][Next]_vars

InitByType == Start(MaxOracleByType)

NextByType == GenerateCondition \/ GenerateConditionByType

SpecByType == InitByType /\ [][NextByType]_vars

InitCompose == Start(MaxOracleCompose)

NextCompose == GenerateComposedConditions

SpecCompose == InitCompose /\ [][NextCompose]_vars

InitChoice == Start(MaxOracleChoice)

NextChoice == CallWeightedChoice

SpecChoice == InitChoice /\ [][NextChoice]_vars

\* the bound on the size of oracle for the calls with a mandatory axis undefined
MaxOracleLenient == 5

\* AXIS_POLICY["mandatory"] with a name that CONDITION_AXES does not define, at each
\* place of the list
MandatoryLists ==
    {<<"ghost", "physique", "wealth">>, <<"physique", "ghost", "wealth">>,
     <<"physique", "wealth", "ghost">>, <<"ghost">>}

\* generate_condition with the mandatory list replaced
GenerateConditionLenient ==
    \E mandatory \in MandatoryLists, seed \in Seeds :
      \E o \in generate_condition([CharacterConfig EXCEPT !.policy.mandatory = mandatory],
                                  seed, RS) :
        Returns([op |-> "generate_condition_lenient", type |-> "", seed |-> seed,
                 arg |-> mandatory],
                [NoRet EXCEPT !.exc = o.exc, !.val = o.chosen, !.selected = o.selected],
                o.rs)

InitLenient == Start(MaxOracleLenient)

NextLenient == GenerateConditionLenient

SpecLenient == InitLenient /\ [][NextLenient]_vars

\* the calls that make no draw
\* generate_condition called again and again, with and without a seed, with room
\* for two calls that select optional axes
MaxOracleLeak == 8

InitLeak == Start(MaxOracleLeak)

NextLeak == GenerateCondition

SpecLeak == InitLeak /\ [][NextLeak]_vars

InitPure == Start(0)

NextPure ==
    \/ CallConditionToPrompt
    \/ CallGetAxisValues
    \/ GenerateConditionByTypeOther

SpecPure == InitPure /\ [][NextPure]_vars

(***************************************************************************)
(* ui/handlers/segments.py.  The segment manager state is a dict: the keys *)
(* segments and next_segment_id are always present here, max_segments and  *)
(* min_segments are options (<<>>: the key is absent).  A segment is       *)
(* [segment_id, obj, kind]: obj is the identity of the object.             *)
(***************************************************************************)
\* largest max_segments the UI is configured with
MaxSegLimit == 3
\* adds are made while next_segment_id is below this
MaxNextId == 5

\* segment_manager_state.get("max_segments", 10)
DefaultMaxSegments == 10

\* segment_manager_state.get("min_segments", 1)
DefaultMinSegments == 1

\* dict.get(key, default) on an option
Get(opt, default) == IF opt = <<>> THEN default ELSE opt[1]

\* the types of segment the handlers know
SegmentKinds == {"dict", "SegmentUIComponents"}

\* the status message: kind, the segment id in it, the number in it
Message(kind, id, n) == [kind |-> kind, id |-> id, n |-> n]

\* add_segment_handler without "next_id + 1": the counter is not advanced
add_segment_handler_NoIncrement(state) ==
    LET current_segments == state.segments
        next_id == state.next_segment_id
        max_segments == Get(state.max_segments, DefaultMaxSegments)
    IN  IF Len(current_segments) >= max_segments
        THEN [state |-> state, message |-> Message("Maximum", "", max_segments)]
        ELSE [state |-> [segments |-> current_segments,
                         next_segment_id |-> next_id,
                         max_segments |-> <<max_segments>>,
                         min_segments |-> <<>>],
              message |-> Message("added", ToString(next_id), Len(current_segments) + 1)]

add_segment_handler(state) ==
    LET current_segments == state.segments
        next_id == state.next_segment_id
        max_segments == Get(state.max_segments, DefaultMaxSegments)
    IN  IF Len(current_segments) >= max_segments
        THEN [state |-> state, message |-> Message("Maximum", "", max_segments)]
        ELSE [state |-> [segments |-> current_segments,
                         next_segment_id |-> next_id + 1,
                         max_segments |-> <<max_segments>>,
                         min_segments |-> <<>>],
              message |-> Message("added", ToString(next_id), Len(current_segments) + 1)]

\* FindSegment that falls back to the last segment when no segment has the id
FindSegment_OrLast(current_segments, segment_id) ==
    LET hits == {i \in 1..Len(current_segments) :
                   /\ current_segments[i].kind \in SegmentKinds
                   /\ current_segments[i].segment_id = segment_id}
    IN  IF hits = {} THEN Len(current_segments)
        ELSE CHOOSE i \in hits : \A j \in hits : i <= j

\* the index of the first segment with that id, 0 if there is none
FindSegment(current_segments, segment_id) ==
    LET hits == {i \in 1..Len(current_segments) :
                   /\ current_segments[i].kind \in SegmentKinds
                   /\ current_segments[i].segment_id = segment_id}
    IN  IF hits = {} THEN 0 ELSE CHOOSE i \in hits : \A j \in hits : i <= j

\* current_segments[:segment_index] + current_segments[segment_index + 1:]
WithoutIndex(current_segments, i) ==
    SubSeq(current_segments, 1, i - 1) \o SubSeq(current_segments, i + 1, Len(current_segments))

\* Reindex with "enumerate(updated_segments, 1)": the ids start at 1
Reindex_FromOne(updated_segments) ==
    [i \in 1..Len(updated_segments) |->
        IF updated_segments[i].kind \in SegmentKinds
        THEN [updated_segments[i] EXCEPT !.segment_id = ToString(i)]
        ELSE updated_segments[i]]

\* for i, seg in enumerate(updated_segments): seg.segment_id = str(i)
Reindex(updated_segments) ==
    [i \in 1..Len(updated_segments) |->
        IF updated_segments[i].kind \in SegmentKinds
        THEN [updated_segments[i] EXCEPT !.segment_id = ToString(i - 1)]
        ELSE updated_segments[i]]

\* remove_segment_handler with "next_segment_id": len(updated_segments): the counter
\* follows the re-indexed list
remove_segment_handler_ResetCounter(segment_id, state) ==
    LET current_segments == state.segments
        min_segments == Get(state.min_segments, DefaultMinSegments)
        max_segments == Get(state.max_segments, DefaultMaxSegments)
        segment_index == FindSegment(current_segments, segment_id)
        updated_segments == Reindex(WithoutIndex(current_segments, segment_index))
    IN  IF Len(current_segments) <= min_segments
        THEN [state |-> state, message |-> Message("Minimum", "", min_segments)]
        ELSE IF segment_index = 0
        THEN [state |-> state, message |-> Message("not found", segment_id, 0)]
        ELSE [state |-> [segments |-> updated_segments,
                         next_segment_id |-> Len(updated_segments),
                         max_segments |-> <<max_segments>>,
                         min_segments |-> <<min_segments>>],
              message |-> Message("removed", segment_id, Len(updated_segments))]

remove_segment_handler(segment_id, state) ==
    LET current_segments == state.segments
        min_segments == Get(state.min_segments, DefaultMinSegments)
        next_id == state.next_segment_id
        max_segments == Get(state.max_segments, DefaultMaxSegments)
        segment_index == FindSegment(current_segments, segment_id)
        updated_segments == Reindex(WithoutIndex(current_segments, segment_index))
    IN  IF Len(current_segments) <= min_segments
        THEN [state |-> state, message |-> Message("Minimum", "", min_segments)]
        ELSE IF segment_index = 0
        THEN [state |-> state, message |-> Message("not found", segment_id, 0)]
        ELSE [state |-> [segments |-> updated_segments,
                         next_segment_id |-> next_id,
                         max_segments |-> <<max_segments>>,
                         min_segments |-> <<min_segments>>],
              message |-> Message("removed", segment_id, Len(updated_segments))]

\* the ids a caller asks to remove
SegmentIdInputs == {ToString(i) : i \in 0..MaxNextId} \cup {"x"}

\* a manager as the UI builds it: n segments with the ids "0".."n-1", the counter
\* at n or beyond, within the configured limits
InitSegments ==
    /\ CondStart(0)
    /\ CatIdle
    /\ PipeIdle
    /\ ExclIdle
    /\ ThreadsIdle
    /\ DimsIdle
    /\ \E max_segments \in 1..MaxSegLimit :
         \E min_segments \in 0..max_segments :
           \E n \in min_segments..max_segments, kind \in SegmentKinds, extra \in 0..1 :
             /\ limits = [max_segments |-> max_segments, min_segments |-> min_segments]
             /\ mgr = [segments |-> [i \in 1..n |-> [segment_id |-> ToString(i - 1),
                                                     obj |-> i, kind |-> kind]],
                       next_segment_id |-> n + extra,
                       max_segments |-> <<max_segments>>,
                       min_segments |-> <<min_segments>>]
             /\ segop = [op |-> "", id |-> "", before |-> <<>>,
                         message |-> Message("", "", 0), heap |-> n]

\* add_segment_handler, then the caller appends the segment with the announced id
\* when the add succeeded
AddSegment ==
    /\ mgr.next_segment_id < MaxNextId
    /\ \E kind \in SegmentKinds :
         LET r == add_segment_handler(mgr)
             added == r.message.kind = "added"
             new_segment == [segment_id |-> r.message.id, obj |-> segop.heap + 1,
                             kind |-> kind]
         IN  /\ mgr' = IF added
                       THEN [r.state EXCEPT !.segments = Append(@, new_segment)]
                       ELSE r.state
             /\ segop' = [op |-> "add", id |-> r.message.id, before |-> mgr.segments,
                          message |-> r.message,
                          heap |-> IF added THEN segop.heap + 1 ELSE segop.heap]
    /\ UNCHANGED <<limits, nonSegVars>>

RemoveSegment ==
    /\ \E segment_id \in SegmentIdInputs :
         LET r == remove_segment_handler(segment_id, mgr)
         IN  /\ mgr' = r.state
             /\ segop' = [op |-> "remove", id |-> segment_id, before |-> mgr.segments,
                          message |-> r.message, heap |-> segop.heap]
    /\ UNCHANGED <<limits, nonSegVars>>

NextSegments == AddSegment \/ RemoveSegment

SpecSegments == InitSegments /\ [][NextSegments]_vars

(***************************************************************************)
(* core/catalog_manager.py.  A path is [dir, name]; the image at a path is *)
(* the file with the suffix ".png", its metadata the files ".txt" and      *)
(* ".json" with the same stem.  The favorites database is the list that    *)
(* get_all_favorites returns.                                              *)
(***************************************************************************)
\* the favorites database holds at most this many paths
MaxFavorites == 2

CatalogDirs == {"outputs", "catalog", "elsewhere"}

ImageNames == {"a", "b"}

ImagePaths == [dir : CatalogDirs, name : ImageNames]

MetadataSuffixes == {".txt", ".json"}

File(path, suffix) == [dir |-> path.dir, name |-> path.name, suffix |-> suffix]

\* Path.exists() of the image
ImageExists(fs, path) == File(path, ".png") \in fs

\* FavoritesDB.add_favorite: newest first, a path is stored once
add_favorite(db, path) == IF path \in Range(db) THEN db ELSE <<path>> \o db

\* FavoritesDB.remove_favorite
remove_favorite(db, path) == SelectSeq(db, LAMBDA q : q # path)

\* the filter that lets every favorite through
InOutputs_All(path) == TRUE

\* img_path.is_relative_to(self.outputs_dir.resolve())
InOutputs(path) == path.dir = "outputs"

NoStats == [moved |-> 0, skipped |-> 0, failed |-> 0, errors |-> <<>>]

\* the order _move_image_with_metadata moves the files in
MoveOrder == <<".png", ".txt", ".json">>

\* no shutil.move raises
NoFault == ""

\* _move_image_with_metadata: the image and the metadata files that exist go to
\* the same relative path under the catalog, one shutil.move after the other; raises
\* is the suffix of the file whose shutil.move raises.  What was moved before the
\* exception stays moved: the except clause only logs and returns False
move_image_with_metadata(fs, image_path, raises) ==
    LET catalog_dest == [image_path EXCEPT !.dir = "catalog"]
        attempted(k) == MoveOrder[k] = ".png" \/ File(image_path, MoveOrder[k]) \in fs
        failing == {k \in 1..Len(MoveOrder) : MoveOrder[k] = raises /\ attempted(k)}
        moved == {MoveOrder[k] : k \in {j \in 1..Len(MoveOrder) :
                                          attempted(j) /\ \A f \in failing : j < f}}
    IN  IF image_path.dir # "outputs"
        THEN [success |-> FALSE, fs |-> fs]
        ELSE [success |-> failing = {},
              fs |-> (fs \ {File(image_path, x) : x \in moved})
                         \cup {File(catalog_dest, x) : x \in moved}]

\* the loop that drops the favorite whether the move succeeded or not
RECURSIVE MoveLoop_AlwaysRemove(_, _, _, _)
MoveLoop_AlwaysRemove(outputs_favorites, i, faults, st) ==
    IF i > Len(outputs_favorites)
    THEN st
    ELSE LET image_path == outputs_favorites[i]
             m == move_image_with_metadata(st.fs, image_path, faults[image_path])
         IN  MoveLoop_AlwaysRemove(outputs_favorites, i + 1, faults,
                IF ~ImageExists(st.fs, image_path)
                THEN [st EXCEPT !.stats.skipped = @ + 1,
                                !.db = remove_favorite(@, image_path)]
                ELSE IF m.success
                THEN [st EXCEPT !.stats.moved = @ + 1,
                                !.fs = m.fs,
                                !.db = remove_favorite(@, image_path)]
                ELSE [st EXCEPT !.stats.failed = @ + 1,
                                !.stats.errors = Append(@, image_path),
                                !.fs = m.fs,
                                !.db = remove_favorite(@, image_path)])

\* the loop over outputs_favorites, from the i-th on; faults[p] is the fault met
\* while the files of p are moved
RECURSIVE MoveLoop(_, _, _, _)
MoveLoop(outputs_favorites, i, faults, st) ==
    IF i > Len(outputs_favorites)
    THEN st
    ELSE LET image_path == outputs_favorites[i]
             m == move_image_with_metadata(st.fs, image_path, faults[image_path])
         IN  MoveLoop(outputs_favorites, i + 1, faults,
                IF ~ImageExists(st.fs, image_path)
                THEN [st EXCEPT !.stats.skipped = @ + 1,
                                !.db = remove_favorite(@, image_path)]
                ELSE IF m.success
                THEN [st EXCEPT !.stats.moved = @ + 1,
                                !.fs = m.fs,
                                !.db = remove_favorite(@, image_path)]
                ELSE [st EXCEPT !.stats.failed = @ + 1,
                                !.stats.errors = Append(@, image_path),
                                !.fs = m.fs])

move_favorites_to_catalog(db, fs, faults) ==
    LET all_favorites == db
        outputs_favorites == SelectSeq(all_favorites, InOutputs)
    IN  IF all_favorites = <<>>
        THEN [stats |-> NoStats, fs |-> fs, db |-> db]
        ELSE MoveLoop(outputs_favorites, 1, faults,
                      [stats |-> NoStats, fs |-> fs, db |-> db])

NoCatOp == [op |-> "", stats |-> NoStats, favs |-> <<>>, files |-> {}]

InitCatalog ==
    /\ CondStart(0)
    /\ SegIdle
    /\ PipeIdle
    /\ ExclIdle
    /\ ThreadsIdle
    /\ DimsIdle
    /\ files = {}
    /\ favs = <<>>
    /\ catop = NoCatOp

\* an image is written under outputs, with or without its metadata files
SaveImage ==
    /\ \E name \in ImageNames, metadata \in {{}, MetadataSuffixes} :
         LET path == [dir |-> "outputs", name |-> name]
         IN  files' = files \cup {File(path, x) : x \in {".png"} \cup metadata}
    /\ catop' = [NoCatOp EXCEPT !.op = "save"]
    /\ UNCHANGED <<favs, nonCatVars>>

\* the user marks a path as favorite
AddFavorite ==
    /\ Len(favs) < MaxFavorites
    /\ \E path \in ImagePaths : favs' = add_favorite(favs, path)
    /\ catop' = [NoCatOp EXCEPT !.op = "favorite"]
    /\ UNCHANGED <<files, nonCatVars>>

MoveFavoritesToCatalog ==
    /\ \E faults \in [Range(favs) -> {NoFault} \cup Range(MoveOrder)] :
         LET r == move_favorites_to_catalog(favs, files, faults)
         IN  /\ files' = r.fs
             /\ favs' = r.db
             /\ catop' = [op |-> "move", stats |-> r.stats, favs |-> favs, files |-> files]
    /\ UNCHANGED nonCatVars

NextCatalog == SaveImage \/ AddFavorite \/ MoveFavoritesToCatalog

SpecCatalog == InitCatalog /\ [][NextCatalog]_vars

(***************************************************************************)
(* core/pipeline.py, ImageGenerator.generate_and_save, and the enabled     *)
(* flag of plugins/base.py.  A run goes through the four hook loops, the   *)
(* generation and the save; each hook call is a step, and a plugin can be  *)
(* enabled or disabled between steps.                                      *)
(***************************************************************************)
\* the generator is built with at most this many plugins
MaxPlugins == 2

Hooks == <<"on_generate_start", "on_generate_complete", "on_before_save", "on_after_save">>

\* what follows each phase of generate_and_save
NextPhase(phase) ==
    CASE phase = "on_generate_start" -> "generate"
      [] phase = "generate" -> "on_generate_complete"
      [] phase = "on_generate_complete" -> "on_before_save"
      [] phase = "on_before_save" -> "save"
      [] phase = "save" -> "on_after_save"
      [] phase = "on_after_save" -> "returned"

Event(what, plugin) == [what |-> what, plugin |-> plugin]

\* the hook is given to every plugin, enabled or not
HookCalled_Always(plugin_enabled) == TRUE

\* if plugin.enabled
HookCalled(plugin_enabled) == plugin_enabled

Running == run.phase \notin {"idle", "returned", "raised"}

InitPipeline ==
    /\ CondStart(0)
    /\ SegIdle
    /\ CatIdle
    /\ ExclIdle
    /\ ThreadsIdle
    /\ DimsIdle
    /\ \E n \in 1..MaxPlugins : plugins \in [1..n -> BOOLEAN]
    /\ run = [phase |-> "idle", i |-> 0]
    /\ hooklog = <<>>
    /\ seen = [on |-> {}, off |-> {}]

\* generate_and_save is called
StartRun ==
    /\ ~Running
    /\ run' = [phase |-> "on_generate_start", i |-> 1]
    /\ hooklog' = <<>>
    /\ seen' = [on |-> {i \in 1..Len(plugins) : plugins[i]},
                off |-> {i \in 1..Len(plugins) : ~plugins[i]}]
    /\ UNCHANGED <<plugins, nonPipeVars>>

\* one iteration of "for plugin in self.plugins" of the current hook
HookStep ==
    /\ run.phase \in Range(Hooks)
    /\ hooklog' = IF HookCalled(plugins[run.i])
                  THEN Append(hooklog, Event(run.phase, run.i))
                  ELSE hooklog
    /\ run' = IF run.i < Len(plugins)
              THEN [run EXCEPT !.i = @ + 1]
              ELSE [phase |-> NextPhase(run.phase), i |-> 1]
    /\ UNCHANGED <<plugins, seen, nonPipeVars>>

\* image = self.generate(...): returns the image, or the pipeline raises
Generate ==
    /\ run.phase = "generate"
    /\ \E ok \in BOOLEAN :
         IF ok
         THEN /\ hooklog' = Append(hooklog, Event("generate", 0))
              /\ run' = [run EXCEPT !.phase = NextPhase(@)]
         ELSE /\ hooklog' = hooklog
              /\ run' = [run EXCEPT !.phase = "raised"]
    /\ UNCHANGED <<plugins, seen, nonPipeVars>>

\* image.save(output_path)
Save ==
    /\ run.phase = "save"
    /\ hooklog' = Append(hooklog, Event("save", 0))
    /\ run' = [run EXCEPT !.phase = NextPhase(@)]
    /\ UNCHANGED <<plugins, seen, nonPipeVars>>

\* PluginBase.enable
Enable ==
    /\ \E i \in 1..Len(plugins) :
         /\ ~plugins[i]
         /\ plugins' = [plugins EXCEPT ![i] = TRUE]
         /\ seen' = IF Running THEN [seen EXCEPT !.on = @ \cup {i}] ELSE seen
    /\ UNCHANGED <<run, hooklog, nonPipeVars>>

\* PluginBase.disable
Disable ==
    /\ \E i \in 1..Len(plugins) :
         /\ plugins[i]
         /\ plugins' = [plugins EXCEPT ![i] = FALSE]
         /\ seen' = IF Running THEN [seen EXCEPT !.off = @ \cup {i}] ELSE seen
    /\ UNCHANGED <<run, hooklog, nonPipeVars>>

NextPipeline == StartRun \/ HookStep \/ Generate \/ Save \/ Enable \/ Disable

SpecPipeline == InitPipeline /\ [][NextPipeline]_vars

(***************************************************************************)
(* Phase 3 of generate_condition taken rule by rule, for any rule table    *)
(* and any selection: the loop over EXCLUSIONS.items() keeps the mapping   *)
(* chosen and its position i; log[k] is the mapping before and after the   *)
(* k-th rule.                                                              *)
(***************************************************************************)
\* a rule table has at most this many rules
MaxRules == 3

\* the axes the rule tables are over, each with the value rules mention and another
RuleAxes == << <<"wealth", "decadent", "poor">>,
               <<"physique", "frail", "broad">>,
               <<"health", "sickly", "hale">> >>

\* the rules: value v of one axis blocks value w of an axis
Rules ==
    {<<RuleAxes[a][1], RuleAxes[a][2], << <<RuleAxes[b][1], {RuleAxes[b][2]}>> >> >>
     : a \in 1..Len(RuleAxes), b \in 1..Len(RuleAxes)}

\* the rule tables: a dict has each key (axis, value) once
RuleTables ==
    UNION {{t \in [1..n -> Rules] :
              \A k, l \in 1..n : k # l => <<t[k][1], t[k][2]>> # <<t[l][1], t[l][2]>>}
           : n \in 1..MaxRules}

\* the selections: each axis absent or with one of its two values
Selections ==
    {LET all == [a \in 1..Len(RuleAxes) |-> <<RuleAxes[a][1], f[a]>>]
     IN  SelectSeq(all, LAMBDA e : e[2] # "")
     : f \in {g \in [1..Len(RuleAxes) -> {"", "decadent", "poor", "frail", "broad",
                                           "sickly", "hale"}]
              : \A a \in 1..Len(RuleAxes) : g[a] \in {"", RuleAxes[a][2], RuleAxes[a][3]}}}

InitExclusion ==
    /\ CondStart(0)
    /\ SegIdle
    /\ CatIdle
    /\ PipeIdle
    /\ ThreadsIdle
    /\ DimsIdle
    /\ \E rules \in RuleTables, input \in Selections :
         excl = [rules |-> rules, input |-> input, chosen |-> input, i |-> 1, log |-> <<>>]

\* one iteration of "for (axis, value), blocked in EXCLUSIONS.items()"
ExclusionStep ==
    /\ excl.i <= Len(excl.rules)
    /\ LET after == ApplyRule(excl.rules[excl.i], excl.chosen)
       IN  excl' = [excl EXCEPT !.chosen = after,
                                !.i = @ + 1,
                                !.log = Append(@, [before |-> excl.chosen, after |-> after])]
    /\ UNCHANGED nonExclVars

NextExclusion == ExclusionStep

SpecExclusion == InitExclusion /\ [][NextExclusion]_vars

(***************************************************************************)
(* generate_condition called from several threads.  The module-level       *)
(* generator (rng, oracle) is shared by the threads and nothing in         *)
(* character_conditions.py locks it; chosen, optional_axes and the loop    *)
(* positions are locals of each call.  A step is one call of the random    *)
(* library, which the interpreter runs without a switch of thread.         *)
(***************************************************************************)
\* the threads of the host
MaxThreads == 2

\* the bound on the size of oracle for the threads
MaxOracleThreads == 5

\* the calls each thread makes
MaxThreadCalls == 1

Threads == 1..MaxThreads

NoFrame ==
    [pc |-> "idle", seed |-> NoSeed, chosen |-> <<>>, optional_axes |-> <<>>,
     num_optional |-> 0, i |-> 0, returned |-> FALSE, result |-> <<>>, calls |-> 0]

\* the shared generator after a library call made in state s
Shared(s) ==
    /\ rng' = [seed |-> s.seed, hist |-> s.hist]
    /\ oracle' = s.oracle
    /\ UNCHANGED <<call, ret, probe, cap, nonCondVars>>

InitThreads ==
    /\ CondStart(MaxOracleThreads)
    /\ SegIdle
    /\ CatIdle
    /\ PipeIdle
    /\ ExclIdle
    /\ DimsIdle
    /\ thr = [t \in Threads |-> NoFrame]

\* a thread enters generate_condition(seed)
ThreadCall(t) ==
    /\ thr[t].pc = "idle"
    /\ thr[t].calls < MaxThreadCalls
    /\ \E seed \in Seeds :
         thr' = [thr EXCEPT ![t] = [NoFrame EXCEPT !.pc = "seed", !.seed = seed,
                                                  !.calls = thr[t].calls + 1]]
    /\ UNCHANGED <<condVars, nonCondVars>>

\* if seed is not None: random.seed(seed)
ThreadSeed(t) ==
    /\ thr[t].pc = "seed"
    /\ thr' = [thr EXCEPT ![t].pc = "mandatory", ![t].i = 1]
    /\ Shared(Reseed(RS, thr[t].seed))

\* phase 1, one axis: chosen[axis] = weighted_choice(...)
ThreadMandatory(t) ==
    /\ thr[t].pc = "mandatory"
    /\ LET cfg == CharacterConfig
           axis == cfg.policy.mandatory[thr[t].i]
           last == thr[t].i = Len(cfg.policy.mandatory)
       IN  \E s \in SelectAxis(cfg, axis, [chosen |-> thr[t].chosen, rs |-> RS,
                                           exc |-> NoExc]) :
             /\ s.exc = NoExc
             /\ thr' = [thr EXCEPT ![t].chosen = s.chosen,
                                   ![t].i = IF last THEN 0 ELSE @ + 1,
                                   ![t].pc = IF last THEN "randint" ELSE @]
             /\ Shared(s.rs)

\* num_optional = random.randint(0, min(max_optional, len(optional)))
ThreadRandint(t) ==
    /\ thr[t].pc = "randint"
    /\ LET cfg == CharacterConfig
       IN  \E n \in random_randint(RS, Min(cfg.policy.max_optional,
                                           Len(cfg.policy.optional))) :
             /\ n.exc = NoExc
             /\ thr' = [thr EXCEPT ![t].num_optional = n.res, ![t].pc = "sample"]
             /\ Shared(n.rs)

\* optional_axes = random.sample(AXIS_POLICY["optional"], num_optional)
ThreadSample(t) ==
    /\ thr[t].pc = "sample"
    /\ \E o \in random_sample(RS, "optional", CharacterConfig.policy.optional,
                              thr[t].num_optional) :
         /\ thr' = [thr EXCEPT ![t].optional_axes = o.res,
                               ![t].i = 1,
                               ![t].pc = IF o.res = <<>> THEN "exclude" ELSE "optional"]
         /\ Shared(o.rs)

\* phase 2, one axis
ThreadOptional(t) ==
    /\ thr[t].pc = "optional"
    /\ LET cfg == CharacterConfig
           axis == thr[t].optional_axes[thr[t].i]
           last == thr[t].i = Len(thr[t].optional_axes)
       IN  \E s \in SelectAxis(cfg, axis, [chosen |-> thr[t].chosen, rs |-> RS,
                                           exc |-> NoExc]) :
             /\ s.exc = NoExc
             /\ thr' = [thr EXCEPT ![t].chosen = s.chosen,
                                   ![t].i = IF last THEN 0 ELSE @ + 1,
                                   ![t].pc = IF last THEN "exclude" ELSE @]
             /\ Shared(s.rs)

\* phase 3 works on the locals only; the call returns chosen
ThreadReturn(t) ==
    /\ thr[t].pc = "exclude"
    /\ thr' = [thr EXCEPT ![t].pc = "idle",
                          ![t].returned = TRUE,
                          ![t].result = ExclusionPhase(CharacterConfig.exclusions,
                                                       thr[t].chosen, 1)]
    /\ UNCHANGED <<condVars, nonCondVars>>

NextThreads ==
    \E t \in Threads :
      \/ ThreadCall(t)
      \/ ThreadSeed(t)
      \/ ThreadMandatory(t)
      \/ ThreadRandint(t)
      \/ ThreadSample(t)
      \/ ThreadOptional(t)
      \/ ThreadReturn(t)

SpecThreads == InitThreads /\ [][NextThreads]_vars

(***************************************************************************)
(* ui/aspect_ratios.py: the presets and the validation of dimensions.      *)
(* None is the empty tuple, a present width or height is Some(n).          *)
(***************************************************************************)
Preset(name, width, height, ratio_string, category) ==
    [name |-> name, width |-> width, height |-> height,
     ratio_string |-> ratio_string, category |-> category]

PRESET_LIST ==
    << Preset("Square 1:1 (1024x1024)", Some(1024), Some(1024), "1:1", "standard"),
       Preset("Widescreen 16:9 (1280x720)", Some(1280), Some(720), "16:9", "social_media"),
       Preset("Widescreen 16:9 (1600x896)", Some(1600), Some(896), "16:9", "social_media"),
       Preset("Portrait 9:16 (720x1280)", Some(720), Some(1280), "9:16", "social_media"),
       Preset("Portrait 9:16 (896x1600)", Some(896), Some(1600), "9:16", "social_media"),
       Preset("Standard 3:2 (1280x832)", Some(1280), Some(832), "3:2", "photography"),
       Preset("Standard 2:3 (832x1280)", Some(832), Some(1280), "2:3", "photography"),
       Preset("Standard 3:2 (1536x1024)", Some(1536), Some(1024), "3:2", "photography"),
       Preset("Custom", <<>>, <<>>, "custom", "custom") >>

\* AspectRatioPreset.is_custom
is_custom(preset) == preset.width = <<>> /\ preset.height = <<>>

\* AspectRatioPreset.dimensions_tuple
dimensions_tuple(preset) ==
    IF preset.width = <<>> \/ preset.height = <<>>
    THEN <<>>
    ELSE <<preset.width[1], preset.height[1]>>

\* the keys of ASPECT_RATIOS
PresetNames == {PRESET_LIST[i].name : i \in 1..Len(PRESET_LIST)}

min_dimension == 64

max_dimension == 2048

\* the multiple the diffusion model needs
Alignment == 64

\* round(n / 64) * 64 for n >= 0: Python rounds a half to the even neighbour
Nearest(n) ==
    LET q == n \div Alignment
        r == n % Alignment
    IN  IF 2 * r < Alignment THEN q * Alignment
        ELSE IF 2 * r > Alignment THEN (q + 1) * Alignment
        ELSE IF q % 2 = 0 THEN q * Alignment
        ELSE (q + 1) * Alignment

Valid == [exc |-> NoExc, message |-> <<>>]

Invalid(message) == [exc |-> "AspectRatioValidationError", message |-> message]

\* validate_dimensions: the exception it raises, if any
validate_dimensions(width, height) ==
    IF width <= 0 \/ height <= 0
    THEN Invalid(<<"must be positive integers", width, height>>)
    ELSE IF width < min_dimension \/ height < min_dimension
    THEN Invalid(<<"must be at least", width, height>>)
    ELSE IF width > max_dimension \/ height > max_dimension
    THEN Invalid(<<"must not exceed", width, height>>)
    ELSE IF width % Alignment # 0 \/ height % Alignment # 0
    THEN Invalid(<<"must be multiples of 64", width, height,
                   Nearest(width), Nearest(height)>>)
    ELSE Valid

\* validate_preset_name
validate_preset_name(name) ==
    IF name \notin PresetNames THEN Invalid(<<"Unknown preset", name>>) ELSE Valid

\* get_preset_by_name: the first preset of the list with that name
get_preset_by_name(name) ==
    LET v == validate_preset_name(name)
    IN  IF v.exc # NoExc
        THEN [val |-> <<>>, exc |-> v.exc, message |-> v.message]
        ELSE [val |-> <<PRESET_LIST[CHOOSE i \in 1..Len(PRESET_LIST) :
                                      /\ PRESET_LIST[i].name = name
                                      /\ \A j \in 1..(i - 1) : PRESET_LIST[j].name # name]>>,
              exc |-> NoExc, message |-> <<>>]

\* the widths and heights validate_dimensions is called with
DimensionInputs == {-1024, 0, 32, 64, 96, 720, 1000, 1024, 2048, 4096}

PresetNameInputs == PresetNames \cup {"Unknown"}

NoDimsOp == [op |-> "", args |-> <<>>, val |-> <<>>, exc |-> NoExc, message |-> <<>>]

InitAspect ==
    /\ CondStart(0)
    /\ SegIdle
    /\ CatIdle
    /\ PipeIdle
    /\ ExclIdle
    /\ ThreadsIdle
    /\ dims = NoDimsOp

\* the dimensions of the preset the last call returned, if it returned one with
\* dimensions
ReturnedDimensions ==
    IF dims.op = "get_preset_by_name" /\ dims.exc = NoExc
    THEN {dimensions_tuple(dims.val[1])} \ {<<>>}
    ELSE {}

\* the user picks a preset by name
GetPresetByName ==
    /\ \E name \in PresetNameInputs :
         LET r == get_preset_by_name(name)
         IN  dims' = [op |-> "get_preset_by_name", args |-> <<name>>, val |-> r.val,
                      exc |-> r.exc, message |-> r.message]
    /\ UNCHANGED nonDimsVars

\* validate_dimensions(width, height), on typed-in values or on the dimensions of
\* the preset just picked
ValidateDimensions ==
    /\ \E d \in (DimensionInputs \X DimensionInputs) \cup ReturnedDimensions :
         LET r == validate_dimensions(d[1], d[2])
         IN  dims' = [op |-> "validate_dimensions", args |-> d, val |-> <<>>,
                      exc |-> r.exc, message |-> r.message]
    /\ UNCHANGED nonDimsVars

NextAspect == GetPresetByName \/ ValidateDimensions

SpecAspect == InitAspect /\ [][NextAspect]_vars

(***************************************************************************)
(* Claims                                                                  *)
(***************************************************************************)
IsGenerate == call.op = "generate_condition"

IsByType(ty) == call.op = "generate_condition_by_type" /\ call.type = ty

\* C1: a call with a seed returns what the first call with the same arguments and
\* the same seed returned, whatever was called before or in between
C1_SeededReproducibility ==
    (probe # <<>> /\ SameCall(call, probe[1].call)) => ret.val = probe[1].val

\* C1 witness: "Both" with a seed is called again after a different call
C1_Witness ==
    /\ probe # <<>>
    /\ probe[1].other
    /\ SameCall(call, probe[1].call)
    /\ IsByType("Both")
    /\ Len(ret.val) > 0

\* C2: in a mapping returned by generate_condition no exclusion rule has both its
\* trigger pair and one of its blocked values present
C2_ExclusionCorrectness ==
    IsGenerate =>
      \A i \in 1..Len(EXCLUSIONS) :
        GetIs(ret.val, EXCLUSIONS[i][1], EXCLUSIONS[i][2]) =>
          \A j \in 1..Len(EXCLUSIONS[i][3]) :
            ~GetIn(ret.val, EXCLUSIONS[i][3][j][1], EXCLUSIONS[i][3][j][2])

\* C2 witness: ancient and timid were selected and the rule removed demeanor
C2_Witness ==
    /\ IsGenerate
    /\ GetIs(ret.selected, "age", "ancient")
    /\ GetIs(ret.selected, "demeanor", "timid")
    /\ GetIs(ret.val, "age", "ancient")
    /\ ~Has(ret.val, "demeanor")

OptionalPresent(d) == Keys(d) \cap Range(AXIS_POLICY.optional)

\* C3: the keys of a mapping returned by generate_condition are mandatory or
\* optional axes, and at most max_optional of them are optional axes
C3_OptionalBound ==
    IsGenerate =>
      /\ Keys(ret.val) \subseteq Range(AXIS_POLICY.mandatory) \cup Range(AXIS_POLICY.optional)
      /\ Cardinality(OptionalPresent(ret.val)) \in 0..AXIS_POLICY.max_optional

\* C3 witness: a result with max_optional optional axes
C3_Witness ==
    /\ IsGenerate
    /\ Cardinality(OptionalPresent(ret.val)) = AXIS_POLICY.max_optional
    /\ Len(ret.val) = Len(AXIS_POLICY.mandatory) + AXIS_POLICY.max_optional

\* a rule whose trigger was selected blocks the value selected for axis a
RemovedByRule(selected, a) ==
    \E i \in 1..Len(EXCLUSIONS) :
      /\ GetIs(selected, EXCLUSIONS[i][1], EXCLUSIONS[i][2])
      /\ \E j \in 1..Len(EXCLUSIONS[i][3]) :
           /\ EXCLUSIONS[i][3][j][1] = a
           /\ GetIn(selected, a, EXCLUSIONS[i][3][j][2])

\* C4: a defined mandatory axis is missing from the result only if an exclusion
\* rule removed it; if the exclusion phase removed nothing, all of them are present
C4_MandatoryCoverage ==
    IsGenerate =>
      \A i \in 1..Len(AXIS_POLICY.mandatory) :
        LET a == AXIS_POLICY.mandatory[i]
        IN  Has(CONDITION_AXES, a) =>
              /\ ~Has(ret.val, a) => RemovedByRule(ret.selected, a)
              /\ ret.val = ret.selected => Has(ret.val, a)

\* C4 witness: hale removed a frail physique
C4_Witness ==
    /\ IsGenerate
    /\ GetIs(ret.val, "health", "hale")
    /\ GetIs(ret.selected, "physique", "frail")
    /\ ~Has(ret.val, "physique")

\* C5: with or without a seed, the Character condition keeps a mandatory axis and
\* its text is not empty
C5_CharacterNeverEmpty ==
    /\ IsGenerate => Keys(ret.val) \cap Range(AXIS_POLICY.mandatory) # {}
    /\ IsByType("Character") => Len(ret.val) > 0

\* C5 witness: decadent removed the frail physique and wealth alone is left
C5_Witness ==
    /\ IsGenerate
    /\ GetIs(ret.selected, "physique", "frail")
    /\ ret.val = << <<"wealth", "decadent">> >>

\* the non-empty parts, in order, with the separator between them
RECURSIVE JoinNonEmptyFrom(_, _, _)
JoinNonEmptyFrom(parts, i, acc) ==
    IF i > Len(parts) THEN acc
    ELSE JoinNonEmptyFrom(parts, i + 1,
                          IF Len(parts[i]) = 0 THEN acc
                          ELSE IF Len(acc) = 0 THEN parts[i]
                          ELSE acc \o <<SEP>> \o parts[i])

\* no empty part: no separator first, last or next to another one
WellSeparated(text) ==
    /\ Len(text) > 0 => text[1] # SEP /\ text[Len(text)] # SEP
    /\ \A i \in 1..(Len(text) - 1) : ~(text[i] = SEP /\ text[i + 1] = SEP)

FamiliesOf(ty) == IF ty = "Both" THEN 2 ELSE 3

\* C6: "Both" joins Character(seed) and Facial(seed + 1), "All" joins these and
\* Occupation(seed + 2), in that order, skipping empty fragments; without a seed
\* every family is generated without one
C6_MultiFamilyComposition ==
    (IsByType("Both") \/ IsByType("All")) =>
      /\ Len(ret.parts) = FamiliesOf(call.type)
      /\ \A i \in 1..Len(ret.seeds) :
           ret.seeds[i] = IF call.seed = NoSeed THEN NoSeed
                          ELSE Some(call.seed[1] + (i - 1))
      /\ Len(ret.seeds) = FamiliesOf(call.type)
      /\ ret.val = JoinNonEmptyFrom(ret.parts, 1, <<>>)
      /\ WellSeparated(ret.val)

\* C6 witness: "All" with a seed when the facial fragment is empty
C6_Witness ==
    /\ IsByType("All")
    /\ call.seed = Some(0)
    /\ Len(ret.parts) = 3
    /\ Len(ret.parts[2]) = 0
    /\ Len(ret.parts[3]) > 0

\* C7: for "None" and for a string that is not exactly a known type the dispatcher
\* returns the empty string and does not raise
C7_DispatcherPermissive ==
    (call.op = "generate_condition_by_type" /\ call.type \notin KnownTypes) =>
      ret.val = <<>> /\ ret.exc = NoExc

\* C7 witness: a known type in the wrong case
C7_Witness ==
    /\ IsByType("FACIAL")
    /\ ret.val = <<>>
    /\ ret.exc = NoExc

\* C8: the text is the values in insertion order with the separator between them,
\* no key of the mapping is in it, it is empty for the empty mapping and the
\* argument is as it was
C8_Renderer ==
    call.op = "condition_to_prompt" =>
      LET d == call.arg
          text == ret.val
      IN  /\ Len(d) = 0 => text = <<>>
          /\ Len(d) > 0 => Len(text) = 2 * Len(d) - 1
          /\ \A i \in 1..Len(d) : text[2 * i - 1] = d[i][2]
          /\ \A i \in 1..(Len(d) - 1) : text[2 * i] = SEP
          /\ Range(text) \cap (Keys(d) \cup Keys(CONDITION_AXES)) = {}
          /\ ret.arg = d

\* C8 witness: two entries whose insertion order is not the order of the registry
C8_Witness ==
    /\ call.op = "condition_to_prompt"
    /\ call.arg = << <<"wealth", "poor">>, <<"physique", "wiry">> >>
    /\ ret.val = <<"poor", SEP, "wiry">>

\* an option of the call has a negative weight
HasNegativeWeight(options, weights) ==
    \E i \in 1..Len(options) : Has(weights, options[i]) /\ Lookup(weights, options[i]) < 0

\* C9: weighted_choice with a negative weight for an option raises and returns nothing
C9_NegativeWeightRejected ==
    (call.op = "weighted_choice" /\ HasNegativeWeight(call.arg[1], call.arg[2])) =>
      ret.exc # NoExc

\* C10: get_axis_values of a name that is not in the registry raises (KeyError)
\* and returns no value
C10_UnknownAxisLookup ==
    (call.op = "get_axis_values" /\ ~Has(CONDITION_AXES, call.arg)) =>
      ret.exc = "KeyError" /\ ret.val = <<>>

\* C10 witness: the lookup of "not-a-real-axis"
C10_Witness ==
    /\ call.op = "get_axis_values"
    /\ call.arg = "not-a-real-axis"
    /\ ret.exc = "KeyError"

\* C11: the text returned for the type "Character" contains the separator, that
\* is, it lists at least two values
C11_CharacterCommaSeparated ==
    (IsByType("Character") /\ ret.exc = NoExc) => SEP \in Range(ret.val)

\* C12: the number of segments stays within the configured limits
C12_SegmentLimits ==
    /\ Len(mgr.segments) <= limits.max_segments
    /\ Len(mgr.segments) >= limits.min_segments

\* C13: no two segments of the list have the same segment_id
C13_UniqueSegmentIds ==
    \A i, j \in 1..Len(mgr.segments) :
      i # j => mgr.segments[i].segment_id # mgr.segments[j].segment_id

\* C13 witness: a segment added after a removal, next to re-indexed segments
C13_Witness ==
    /\ segop.op = "add"
    /\ segop.message.kind = "added"
    /\ Len(mgr.segments) = 3
    /\ mgr.segments[3].segment_id = "4"
    /\ mgr.segments[2].segment_id = "1"
    /\ mgr.segments[2].obj = 3

\* C14: a successful removal returns the previous list without the segment that
\* had the id, the others in the same order, with the ids "0", "1", ... in list order
C14_ReindexOnRemoval ==
    (segop.op = "remove" /\ segop.message.kind = "removed") =>
      \E k \in 1..Len(segop.before) :
        /\ segop.before[k].segment_id = segop.id
        /\ \A j \in 1..(k - 1) : segop.before[j].segment_id # segop.id
        /\ Len(mgr.segments) = Len(segop.before) - 1
        /\ \A i \in 1..Len(mgr.segments) :
             /\ mgr.segments[i].obj = segop.before[IF i < k THEN i ELSE i + 1].obj
             /\ mgr.segments[i].kind = segop.before[IF i < k THEN i ELSE i + 1].kind
             /\ mgr.segments[i].segment_id = ToString(i - 1)

\* C14 witness: the middle one of three segments is removed
C14_Witness ==
    /\ segop.op = "remove"
    /\ segop.message.kind = "removed"
    /\ segop.id = "1"
    /\ Len(segop.before) = 3
    /\ Len(mgr.segments) = 2
    /\ mgr.segments[2].segment_id = "1"
    /\ mgr.segments[2].obj = segop.before[3].obj

\* the favorites, before the move, whose image lies in the catalog directory
CatalogFavorites == {p \in Range(catop.favs) : p.dir = "catalog"}

\* C15: after move_favorites_to_catalog, 'skipped' is the number of favorites that
\* were already in the catalog, and none of them was moved or removed
C15_SkippedCountsCatalog ==
    catop.op = "move" =>
        /\ catop.stats.skipped = Cardinality(CatalogFavorites)
        /\ \A p \in CatalogFavorites :
             ImageExists(files, p) = ImageExists(catop.files, p)

\* the positions of the log where the event is of that kind
Positions(what) == {k \in 1..Len(hooklog) : hooklog[k].what = what}

\* every event of the first kind is logged before every event of the second
AllBefore(first, second) ==
    \A k \in Positions(first), l \in Positions(second) : k < l

\* C16: in every run of generate_and_save the on_generate_start calls come before the
\* generation, on_generate_complete after it and before on_before_save, on_before_save
\* before the save and on_after_save after it; each hook goes through the plugins in
\* list order; a plugin enabled throughout a finished run got the four hooks, and a
\* plugin disabled throughout the run got none
C16_HookOrdering ==
    /\ AllBefore("on_generate_start", "generate")
    /\ AllBefore("generate", "on_generate_complete")
    /\ AllBefore("on_generate_complete", "on_before_save")
    /\ AllBefore("on_before_save", "save")
    /\ AllBefore("save", "on_after_save")
    /\ \A h \in Range(Hooks) :
         \A k \in Positions(h), l \in Positions(h) :
           k < l => hooklog[k].plugin < hooklog[l].plugin
    /\ \A k \in 1..Len(hooklog) :
         hooklog[k].plugin # 0 => hooklog[k].plugin \in seen.on
    /\ run.phase = "returned" =>
         /\ Positions("generate") # {} /\ Positions("save") # {}
         /\ \A i \in (1..Len(plugins)) \ seen.off :
              \A h \in Range(Hooks) : Event(h, i) \in Range(hooklog)

\* a finished run with the first plugin disabled and the second enabled throughout
C16_Witness ==
    /\ run.phase = "returned"
    /\ Len(plugins) = 2
    /\ seen = [on |-> {2}, off |-> {1}]
    /\ hooklog = <<Event("on_generate_start", 2), Event("generate", 0),
                   Event("on_generate_complete", 2), Event("on_before_save", 2),
                   Event("save", 0), Event("on_after_save", 2)>>

\* the rule's trigger is in the mapping
Triggered(rule, d) == \E e \in Range(d) : e[1] = rule[1] /\ e[2] = rule[2]

\* an entry of the mapping that the rule blocks
Blocked(rule, e) == \E b \in Range(rule[3]) : e[1] = b[1] /\ e[2] \in b[2]

\* C17: the rules are evaluated once each, in declaration order, each against the
\* mapping the previous rule left; a rule fires exactly when its trigger is in that
\* mapping, so a rule whose trigger axis was removed earlier does not fire; what a
\* fired rule removed stays removed whatever happens to its trigger later; the loop
\* ends in the result of phase 3
C17_SinglePassExclusion ==
    /\ Len(excl.log) = excl.i - 1
    /\ \A k \in 1..Len(excl.log) :
         LET rule == excl.rules[k]
             before == excl.log[k].before
             after == excl.log[k].after
         IN  /\ before = IF k = 1 THEN excl.input ELSE excl.log[k - 1].after
             /\ after = IF Triggered(rule, before)
                        THEN SelectSeq(before, LAMBDA e : ~Blocked(rule, e))
                        ELSE before
             /\ ~Has(before, rule[1]) => after = before
             /\ Range(excl.chosen) \subseteq Range(after)
    /\ excl.chosen = (IF excl.log = <<>> THEN excl.input
                      ELSE excl.log[Len(excl.log)].after)
    /\ excl.i > Len(excl.rules) => excl.chosen = ExclusionPhase(excl.rules, excl.input, 1)

\* C17 witness: decadent removes frail, then sickly removes decadent, then the rule
\* of frail finds its trigger axis gone: physique stays removed, health stays
C17_Witness ==
    /\ excl.rules = << <<"wealth", "decadent", << <<"physique", {"frail"}>> >> >>,
                       <<"health", "sickly", << <<"wealth", {"decadent"}>> >> >>,
                       <<"physique", "frail", << <<"health", {"sickly"}>> >> >> >>
    /\ excl.input = << <<"wealth", "decadent">>, <<"physique", "frail">>,
                       <<"health", "sickly">> >>
    /\ excl.i = 4
    /\ excl.chosen = << <<"health", "sickly">> >>

\* the orders the rules can be evaluated in
RuleOrders ==
    {f \in [1..Len(EXCLUSIONS) -> 1..Len(EXCLUSIONS)] :
       \A k, l \in 1..Len(EXCLUSIONS) : k # l => f[k] # f[l]}

\* C18: for every selection phases 1 and 2 make, the exclusion rules evaluated in any
\* order leave the set of axes that generate_condition returns
C18_ExclusionOrderIndependent ==
    (IsGenerate /\ ret.exc = NoExc) =>
      \A f \in RuleOrders :
        Keys(ExclusionPhase([k \in 1..Len(EXCLUSIONS) |-> EXCLUSIONS[f[k]]],
                            ret.selected, 1)) = Keys(ret.val)

\* C18 witness: two rules fired on the selection: decadent removed frail and ancient
\* removed timid
C18_Witness ==
    /\ IsGenerate
    /\ ret.exc = NoExc
    /\ Keys(ret.selected) = {"physique", "wealth", "demeanor", "age"}
    /\ GetIs(ret.selected, "physique", "frail")
    /\ GetIs(ret.selected, "demeanor", "timid")
    /\ Keys(ret.val) = {"wealth", "age"}

\* the keys of a mapping in its order
KeySeq(d) == [i \in 1..Len(d) |-> d[i][1]]

\* the position in the generator's history of the randint of the last call
LastRandint ==
    CHOOSE k \in 1..Len(rng.hist) :
      /\ rng.hist[k][1] = "randint"
      /\ \A l \in (k + 1)..Len(rng.hist) : rng.hist[l][1] # "randint"

\* what random.sample returned in the last call: the optional axes in sampled order
SampledOrder ==
    IF oracle[<<rng.seed, SubSeq(rng.hist, 1, LastRandint)>>] = 0
    THEN <<>>
    ELSE oracle[<<rng.seed, SubSeq(rng.hist, 1, LastRandint + 1)>>]

\* C19: the keys of a mapping returned by generate_condition are the surviving
\* mandatory axes in policy order followed by the surviving optional axes in sampled
\* order, and the mapping is the selection without the removed axes, in its order
C19_ResultOrdering ==
    (IsGenerate /\ ret.exc = NoExc) =>
      LET survives(a) == Has(ret.val, a)
      IN  /\ KeySeq(ret.val) = SelectSeq(AXIS_POLICY.mandatory, survives)
                                 \o SelectSeq(SampledOrder, survives)
          /\ ret.val = SelectSeq(ret.selected, LAMBDA e : survives(e[1]))
          /\ KeySeq(ret.selected) = AXIS_POLICY.mandatory \o SampledOrder

\* C19 witness: age was sampled before health, and physique was removed
C19_Witness ==
    /\ IsGenerate
    /\ ret.exc = NoExc
    /\ KeySeq(ret.selected) = <<"physique", "wealth", "age", "health">>
    /\ KeySeq(ret.val) = <<"wealth", "age", "health">>

\* what a solo call with that seed returns, as far as the outcomes of the generator
\* decided so far determine it
SoloResults(seed) ==
    {o.chosen : o \in generate_condition(CharacterConfig, seed,
                                         [seed |-> Entropy, hist |-> <<>>,
                                          oracle |-> oracle,
                                          cap |-> Cardinality(DOMAIN oracle)])}

\* C20: a call of generate_condition with a seed, made while other threads call it
\* too, returns the mapping a solo call with that seed returns
C20_ConcurrentReproducibility ==
    \A t \in Threads :
      (thr[t].returned /\ thr[t].seed # NoSeed) =>
        \A solo \in SoloResults(thr[t].seed) : thr[t].result = solo

IsLenient == call.op = "generate_condition_lenient"

\* C21: with a mandatory axis name that the registry does not define,
\* generate_condition does not raise; the name is not in the result; every defined
\* mandatory axis is selected, the optional phase runs (its randint is the last one in
\* the generator's history, and the optional axes selected are the sampled ones) and
\* the result is the selection after the exclusion phase
C21_MissingMandatoryAxisSkipped ==
    IsLenient =>
      /\ ret.exc = NoExc
      /\ \A a \in Range(call.arg) \ Keys(CONDITION_AXES) :
           ~Has(ret.selected, a) /\ ~Has(ret.val, a)
      /\ KeySeq(ret.selected) =
           SelectSeq(call.arg, LAMBDA a : a \in Keys(CONDITION_AXES)) \o SampledOrder
      /\ \E k \in 1..Len(rng.hist) : rng.hist[k][1] = "randint"
      /\ ret.val = ExclusionPhase(EXCLUSIONS, ret.selected, 1)

\* C21 witness: the undefined name stands between physique and wealth; both were
\* selected, one optional axis was added, and the rule of decadent removed frail
C21_Witness ==
    /\ IsLenient
    /\ call.arg = <<"physique", "ghost", "wealth">>
    /\ Len(ret.selected) = 3
    /\ GetIs(ret.selected, "physique", "frail")
    /\ GetIs(ret.selected, "wealth", "decadent")
    /\ Len(ret.val) = 2
    /\ ~Has(ret.val, "physique")

IsWeightedChoice == call.op = "weighted_choice"

\* weights.get(option, 1.0), doubled
ResolvedWeight(weights, option) ==
    IF Has(weights, option) THEN Lookup(weights, option) ELSE DefaultWeight

\* the values weighted_choice(options, weights) can return, from a generator for
\* which nothing is decided
Returnable(options, weights) ==
    {o.res : o \in {x \in weighted_choice([seed |-> Entropy, hist |-> <<>>,
                                           oracle |-> <<>>, cap |-> 1],
                                          "direct", options, weights)
                    : x.exc = NoExc}}

\* C22: what weighted_choice returns is one of the options; with a non-empty weights
\* mapping the options it can return are exactly those with a positive resolved
\* weight, with no weights they are all the options
C22_WeightedChoiceSupport ==
    IsWeightedChoice =>
      LET options == call.arg[1]
          weights == call.arg[2]
      IN  /\ ret.exc = NoExc => ret.val \in Range(options)
          /\ Returnable(options, weights) =
               IF weights = <<>>
               THEN Range(options)
               ELSE {x \in Range(options) : ResolvedWeight(weights, x) > 0}

\* C22 restricted to the calls without a negative weight
C22_NonNegative ==
    (IsWeightedChoice /\ ~HasNegativeWeight(call.arg[1], call.arg[2])) =>
      C22_WeightedChoiceSupport

\* C23: a step of the segment handlers never decreases next_segment_id: a successful
\* add increases it by exactly 1, a rejected add and every remove leave it unchanged
C23_CounterMonotonic ==
    [][/\ mgr'.next_segment_id >= mgr.next_segment_id
       /\ mgr'.next_segment_id =
            IF segop'.op = "add" /\ segop'.message.kind = "added"
            THEN mgr.next_segment_id + 1
            ELSE mgr.next_segment_id]_vars

\* C23 witness: a removal has left one segment, and the counter is still at 4
C23_Witness ==
    /\ segop.op = "remove"
    /\ segop.message.kind = "removed"
    /\ Len(mgr.segments) = 1
    /\ mgr.next_segment_id = 4

\* the ids of the segments of a list
SegmentIds(segments) == {segments[i].segment_id : i \in 1..Len(segments)}

\* C24: an add at max capacity, a remove at min capacity and a remove of an id that
\* no segment has return the state they were given, with the message "Maximum ...",
\* "Minimum ..." or "... not found"; and only these calls are rejected
C24_RejectedLeavesState ==
    [][LET size == Len(mgr.segments)
           atMax == size >= Get(mgr.max_segments, DefaultMaxSegments)
           atMin == size <= Get(mgr.min_segments, DefaultMinSegments)
           unknown == segop'.id \notin SegmentIds(mgr.segments)
           kind == segop'.message.kind
       IN  /\ (segop'.op = "add" /\ atMax) => (mgr' = mgr /\ kind = "Maximum")
           /\ (segop'.op = "remove" /\ atMin) => (mgr' = mgr /\ kind = "Minimum")
           /\ (segop'.op = "remove" /\ ~atMin /\ unknown) =>
                (mgr' = mgr /\ kind = "not found")
           /\ kind \in {"Maximum", "Minimum", "not found"} =>
                /\ mgr' = mgr
                /\ \/ segop'.op = "add" /\ atMax
                   \/ segop'.op = "remove" /\ (atMin \/ unknown)]_vars

\* C24 witness: the removal of an id that none of three segments has was rejected
C24_Witness ==
    /\ segop.op = "remove"
    /\ segop.message.kind = "not found"
    /\ segop.id = "x"
    /\ Len(mgr.segments) = 3
    /\ mgr.segments = segop.before

\* the favorites that were under outputs when the move started
OutputsFavorites == {p \in Range(catop.favs) : p.dir = "outputs"}

\* the files of the image are all in the catalog and none is left under outputs
MovedWhole(p) ==
    \A x \in Range(MoveOrder) :
      File(p, x) \in catop.files =>
        /\ File([p EXCEPT !.dir = "catalog"], x) \in files
        /\ File(p, x) \notin files

\* C25: when move_favorites_to_catalog returns, a favorite under outputs has been
\* removed only if its image was missing or all its files were moved to the catalog;
\* a favorite whose move failed is reported and is still a favorite, and the favorites
\* outside outputs are kept
C25_DroppedOnlyAfterMove ==
    catop.op = "move" =>
        /\ \A p \in OutputsFavorites :
             /\ p \notin Range(favs) => ~ImageExists(catop.files, p) \/ MovedWhole(p)
             /\ p \in Range(catop.stats.errors) <=> p \in Range(favs)
        /\ \A p \in Range(catop.favs) \ OutputsFavorites : p \in Range(favs)
        /\ Range(favs) \subseteq Range(catop.favs)

\* a move in which one favorite went to the catalog and another failed half-way
C25_Witness ==
    /\ catop.op = "move"
    /\ catop.stats.moved = 1
    /\ catop.stats.failed = 1
    /\ \E p \in Range(catop.stats.errors) :
         /\ p \in Range(favs)
         /\ ImageExists(files, [p EXCEPT !.dir = "catalog"])
    /\ \E p \in OutputsFavorites : p \notin Range(favs) /\ MovedWhole(p)

\* C26: under the character rules, an axis that the exclusion phase of
\* generate_condition dropped was blocked by a rule whose trigger is still in the
\* returned mapping, and no rule's trigger is a value that some rule blocks
C26_NoOrphanRemovals ==
    /\ \A r1 \in Range(EXCLUSIONS), r2 \in Range(EXCLUSIONS) :
         ~Blocked(r2, <<r1[1], r1[2]>>)
    /\ (IsGenerate /\ ret.exc = NoExc) =>
         \A e \in Range(ret.selected) :
           ~Has(ret.val, e[1]) =>
             \E rule \in Range(EXCLUSIONS) :
               Blocked(rule, e) /\ Triggered(rule, ret.val)

\* C26 witness: decadent dropped both frail and sickly and is itself returned
C26_Witness ==
    /\ IsGenerate
    /\ ret.exc = NoExc
    /\ GetIs(ret.selected, "physique", "frail")
    /\ GetIs(ret.selected, "health", "sickly")
    /\ ret.val = << <<"wealth", "decadent">> >>

\* what generate_condition(seed=s) followed by generate_condition() returns on a
\* generator that nothing else has used, as far as the outcomes decided in orc
\* determine it
LeakResults(seed, orc) ==
    LET fresh == [seed |-> Entropy, hist |-> <<>>, oracle |-> orc,
                  cap |-> Cardinality(DOMAIN orc)]
    IN  UNION {{o2.chosen : o2 \in generate_condition(CharacterConfig, NoSeed, o1.rs)}
               : o1 \in generate_condition(CharacterConfig, seed, fresh)}

\* h is g followed by at least one more call
Extends(h, g) == Len(h) > Len(g) /\ SubSeq(h, 1, Len(g)) = g

C28_MoveAccounting ==
    catop.op = "move" =>
        /\ catop.stats.moved + catop.stats.skipped + catop.stats.failed
             = Cardinality(OutputsFavorites)
        /\ Len(catop.stats.errors) = catop.stats.failed
        /\ Range(catop.stats.errors) \subseteq OutputsFavorites

\* C28 witness: one favorite under outputs was moved, the one in the catalog was
\* not counted
C28_Witness ==
    /\ catop.op = "move"
    /\ Cardinality(OutputsFavorites) = 1
    /\ Cardinality(Range(catop.favs)) = 2
    /\ \E p \in Range(catop.favs) : p.dir = "catalog" /\ ImageExists(catop.files, p)
    /\ catop.stats.moved = 1
    /\ catop.stats.skipped = 0
    /\ catop.stats.failed = 0

\* C29: a favorite whose _move_image_with_metadata returned False has its image and
\* the metadata files it had still under outputs, and none of them in the catalog
\* unless it was there before
C29_MoveAllOrNothing ==
    catop.op = "move" =>
        \A p \in Range(catop.stats.errors) :
          \A x \in Range(MoveOrder) :
            LET dest == File([p EXCEPT !.dir = "catalog"], x)
            IN  /\ File(p, x) \in catop.files => File(p, x) \in files
                /\ dest \in files => dest \in catop.files

\* the presets that carry dimensions
BuiltInPresets == {p \in Range(PRESET_LIST) : ~is_custom(p)}

\* C30: validate_dimensions accepts the dimensions of every preset other than
\* Custom: both are within 64..2048 and multiples of 64
C30_PresetsValidate ==
    /\ \A p \in BuiltInPresets :
         \A n \in Range(dimensions_tuple(p)) :
           n >= min_dimension /\ n <= max_dimension
    /\ (dims.op = "validate_dimensions"
          /\ \E p \in BuiltInPresets : dims.args = dimensions_tuple(p))
       => /\ dims.exc = NoExc
          /\ \A n \in Range(dims.args) : n % 64 = 0

====
